---- MODULE Spec2Model ----
(***************************************************************************)
(* Model of beancountASN/asnbank_csv.py: ASNImporter.extract, map_payee    *)
(* and add_post.  Strings are sequences of one-character strings, so that  *)
(* the normalisation of payee and narration is computed as the code does.  *)
(* A txn_date is abstracted to a day number, BadDate standing for every    *)
(* string datetime.strptime(.., '%d-%m-%Y') rejects.                       *)
(***************************************************************************)
EXTENDS Integers, Sequences, FiniteSets, TLC

(***************************************************************************)
(* Bounds of the model.                                                    *)
(***************************************************************************)
MaxRows == 3
MaxCalls == 2
\* the longest payee and description of the normalisation's inputs
MaxStr == 4

(***************************************************************************)
(* Strings.                                                                *)
(***************************************************************************)
Empty == << >>

\* str.isspace for the characters of the model's alphabet
IsSpace(c) == c \in {" ", "\t"}

\* str.upper / str.lower on one character
Upper(c) == CASE c = "a" -> "A" [] c = "b" -> "B" [] c = "c" -> "C" [] OTHER -> c
Lower(c) == CASE c = "A" -> "a" [] c = "B" -> "b" [] c = "C" -> "c" [] OTHER -> c

\* str.capitalize: first character upper case, the rest lower case
Capitalize(w) ==
    [i \in 1..Len(w) |-> IF i = 1 THEN Upper(w[i]) ELSE Lower(w[i])]

\* str.split() without separator: the maximal runs of non-whitespace
RECURSIVE SplitWs(_, _)
SplitWs(s, cur) ==
    IF s = Empty
    THEN IF cur = Empty THEN << >> ELSE <<cur>>
    ELSE IF IsSpace(Head(s))
         THEN IF cur = Empty
              THEN SplitWs(Tail(s), Empty)
              ELSE <<cur>> \o SplitWs(Tail(s), Empty)
         ELSE SplitWs(Tail(s), Append(cur, Head(s)))

\* ' '.join(words)
RECURSIVE JoinSp(_)
JoinSp(ws) ==
    IF ws = << >> THEN Empty
    ELSE IF Len(ws) = 1 THEN ws[1]
    ELSE ws[1] \o <<" ">> \o JoinSp(Tail(ws))

\* string.capwords(s)
capwords(s) ==
    LET ws == SplitWs(s, Empty)
    IN  JoinSp([i \in 1..Len(ws) |-> Capitalize(ws[i])])

\* str.strip()
RECURSIVE LStrip(_)
LStrip(s) ==
    IF s # Empty /\ IsSpace(Head(s)) THEN LStrip(Tail(s)) ELSE s

RECURSIVE RStrip(_)
RStrip(s) ==
    IF s # Empty /\ IsSpace(s[Len(s)])
    THEN RStrip(SubSeq(s, 1, Len(s) - 1))
    ELSE s

Strip(s) == RStrip(LStrip(s))

\* re.sub(r"\s+|:", " ", s): scanning left to right, a maximal run of
\* whitespace becomes one space, and otherwise a colon becomes one space
RECURSIVE SubWsColon(_)
SubWsColon(s) ==
    IF s = Empty THEN Empty
    ELSE IF IsSpace(Head(s)) THEN <<" ">> \o SubWsColon(LStrip(s))
    ELSE IF Head(s) = ":" THEN <<" ">> \o SubWsColon(Tail(s))
    ELSE <<Head(s)>> \o SubWsColon(Tail(s))

\* re.match(r"^'.*'$", s): an apostrophe first and last, two characters at least
IsQuoted(s) == Len(s) >= 2 /\ s[1] = "'" /\ s[Len(s)] = "'"

\* re.match(r"\s*", s): the pattern matches the empty prefix of every string
MatchesWsPrefix(s) == Len(LStrip(s)) <= Len(s)

\* re.match(r".*>.*", s)
HasGt(s) == \E i \in 1..Len(s) : s[i] = ">"

\* s.split('>', 1)[0]
RECURSIVE BeforeGt(_)
BeforeGt(s) ==
    IF s = Empty \/ Head(s) = ">" THEN Empty
    ELSE <<Head(s)>> \o BeforeGt(Tail(s))

\* lines 71-73 and 76: the narration of a row
Narrate0(row) ==
    IF IsQuoted(row.description)
    THEN SubSeq(row.description, 2, Len(row.description) - 1)
    ELSE row.description

NormNarrate(row) == Strip(SubWsColon(Narrate0(row)))

\* lines 70, 74-75 and 77: the payee of a row
NormPayee(row) ==
    LET payee == capwords(row.payee)
        narrate == Narrate0(row)
        payee2 == IF MatchesWsPrefix(payee) /\ HasGt(narrate)
                  THEN BeforeGt(narrate)
                  ELSE payee
    IN  Strip(SubWsColon(payee2))


(***************************************************************************)
(* Inputs: the rows of the CSV file, the payee cache file, the operator's  *)
(* answers.                                                                *)
(***************************************************************************)
BadDate == -1

\* self.account_root
account_root == "Assets:ASN"

Row(date, contra, payee, descr, before, amt, tcomm, acomm) ==
    [txn_date |-> date, contra_account |-> contra, payee |-> payee,
     description |-> descr, balance_before |-> before, amount |-> amt,
     txn_comm |-> tcomm, account_comm |-> acomm]

RowPool ==
    { Row(1, <<"0", "1">>, <<"a">>, <<"c", ">", "d">>, 10, 1, "EUR", "EUR"),
      Row(2, Empty, <<"b", " ", "c">>, <<"'", "d", ":", "'">>, 20, 2, "EUR", "EUR"),
      Row(3, Empty, Empty, Empty, 30, 3, "EUR", "USD"),
      Row(BadDate, Empty, Empty, <<" ", ":">>, 40, 4, "EUR", "EUR") }

Entry(raw, bc, posting) == [RAW |-> raw, BC |-> bc, POSTING |-> posting]

\* the content of the cache file; Missing when the file does not exist
Missing == [exists |-> FALSE, rows |-> << >>]
CsvFile(rows) == [exists |-> TRUE, rows |-> rows]

CacheFiles ==
    { Missing,
      CsvFile(<< Entry(<<"0", "1">>, <<"X">>, <<"E">>),
                 Entry(<<"N">>, <<"Y">>, Empty) >>),
      CsvFile(<< Entry(<<"B", " ", "C">>, Empty, Empty),
                 Entry(<<"B", " ", "C">>, <<"Y">>, <<"E">>) >>) }

\* the lines the operator can type at a prompt: the four the code tells
\* apart and one name
Answers == { <<"s">>, <<"S">>, <<"q">>, <<"=">>, <<"Z">> }

\* the "\0" string map_payee returns for an abort
Nul == <<"NUL">>

(***************************************************************************)
(* State.                                                                  *)
(***************************************************************************)
VARIABLES
    payee_map_file,  \* content of the file self.payee_map_file
    old_file,        \* content of the file self.payee_map_file + ".old"
    skip_all,        \* self.skip_all
    file,            \* the rows of the CSV file a reader has yielded so far
    eof,             \* a reader has reached the end of the CSV file
    calls,           \* number of extract calls started
    pc,              \* position of the running extract call
    payee_df,        \* extract's local payee_df
    new_payees,      \* extract's local new_payees, in insertion order
    entries,         \* extract's local entries
    index,           \* extract's local index
    row,             \* extract's local row
    pos,             \* number of rows the csv.DictReader has yielded
    broke,           \* the row loop was left by the break of line 81
    prompts,         \* prompts issued in this call: the key, the line read
                     \* and the value map_payee returned
    last,            \* the last map_payee / add_post evaluation
    io,              \* accesses of this call to the cache file and its backup
    result           \* what the extract call returned or raised

vars == <<payee_map_file, old_file, skip_all, file, eof, calls, pc, payee_df,
          new_payees, entries, index, row, pos, broke, prompts, last, io,
          result>>

NoRow == Row(BadDate, Empty, Empty, Empty, 0, 0, "", "")

NoLast == [via |-> "none", key |-> Empty, payee |-> Empty, narrate |-> Empty,
           ret |-> Empty, built |-> FALSE, post_key |-> Empty]

NoResult == [kind |-> "none", exc |-> "", entries |-> << >>]
Returned(es) == [kind |-> "returned", exc |-> "", entries |-> es]
Raised(e) == [kind |-> "raised", exc |-> e, entries |-> << >>]


(***************************************************************************)
(* The payee cache.                                                        *)
(***************************************************************************)
\* A cell pd.read_csv parses as an integer: digits only.  The strings of
\* the model hold no sign, no decimal point and no exponent.
IsDigit(c) == c \in {"0", "1", "2", "3", "4", "5", "6", "7", "8", "9"}
IsIntText(s) == s # Empty /\ \A i \in 1..Len(s) : IsDigit(s[i])

\* the decimal digits of the integer a digit string denotes
RECURSIVE IntDigits(_)
IntDigits(s) ==
    IF Len(s) > 1 /\ Head(s) = "0" THEN IntDigits(Tail(s)) ELSE s

\* An int64 value of a table, told from every string by its first element
Int64(s) == <<"int64">> \o IntDigits(s)
IsInt64(v) == v # Empty /\ v[1] = "int64"

\* lines 55-59: read_csv is given no dtype, so a column all of whose cells
\* are integers is read as int64 and any other column as strings; with
\* keep_default_na=False the empty cell stays the empty string
IntColumn(rows, col) ==
    rows # << >> /\ \A i \in 1..Len(rows) : IsIntText(rows[i][col])

InferColumn(rows, col) ==
    [i \in 1..Len(rows) |->
        IF IntColumn(rows, col) THEN Int64(rows[i][col]) ELSE rows[i][col]]

\* lines 54-62: pd.read_csv, or the empty table when the file is missing
ReadCsv(f) ==
    IF f.exists
    THEN [i \in 1..Len(f.rows) |->
            Entry(InferColumn(f.rows, "RAW")[i], InferColumn(f.rows, "BC")[i],
                  InferColumn(f.rows, "POSTING")[i])]
    ELSE << >>

\* lines 116-118: the text to_csv writes for a cell
CellText(v) == IF IsInt64(v) THEN Tail(v) ELSE v

\* lines 116-118: the rows to_csv writes for a table
ToCsv(df) ==
    CsvFile([i \in 1..Len(df) |->
                Entry(CellText(df[i].RAW), CellText(df[i].BC),
                      CellText(df[i].POSTING))])

\* lines 114-115 as they would be if the pending rows came out last first
NewPayeesDfReversed(np) ==
    [i \in 1..Len(np) |->
        Entry(np[Len(np) + 1 - i].key, np[Len(np) + 1 - i].value, Empty)]

\* lines 114-115: the rows of new_payees_df; a row has no POSTING, which
\* to_csv writes as the empty field
NewPayeesDf(np) ==
    [i \in 1..Len(np) |-> Entry(np[i].key, np[i].value, Empty)]

\* the rows of df whose RAW equals key, in the order of the table
RECURSIVE Matching(_, _)
Matching(df, key) ==
    IF df = << >> THEN << >>
    ELSE IF Head(df).RAW = key
         THEN <<Head(df)>> \o Matching(Tail(df), key)
         ELSE Matching(Tail(df), key)

\* key in new_payees
InDict(np, key) == \E i \in 1..Len(np) : np[i].key = key

\* new_payees[key]
DictGet(np, key) ==
    LET i == CHOOSE j \in 1..Len(np) : np[j].key = key
    IN  np[i].value

\* new_payees[key] = value: a dict keeps the position of a key it has
DictSet(np, key, value) ==
    IF InDict(np, key)
    THEN [i \in 1..Len(np) |->
            IF np[i].key = key THEN [key |-> key, value |-> value] ELSE np[i]]
    ELSE Append(np, [key |-> key, value |-> value])

(***************************************************************************)
(* map_payee and add_post.                                                 *)
(***************************************************************************)
\* lines 126-131
MapPayeeKey(r, payee) ==
    IF r.contra_account # Empty THEN r.contra_account
    ELSE IF payee # Empty THEN payee
    ELSE r.description

\* add_post as it would be if it preferred the payee to the contra_account
AddPostKeyPayeeFirst(r, payee) ==
    IF payee # Empty THEN payee
    ELSE IF r.contra_account # Empty THEN r.contra_account
    ELSE r.description

\* lines 170-175
AddPostKey(r, payee) ==
    IF r.contra_account # Empty THEN r.contra_account
    ELSE IF payee # Empty THEN payee
    ELSE r.description

\* map_payee as it would be if it tested self.skip_all before the caches
ViaSkipFirst(df, np, skip, key) ==
    IF skip THEN "skip"
    ELSE IF Matching(df, key) # << >> THEN "cache"
    ELSE IF InDict(np, key) THEN "pending"
    ELSE "prompt"

\* lines 133-140: which branch of map_payee answers
Via(df, np, skip, key) ==
    IF Matching(df, key) # << >> THEN "cache"
    ELSE IF InDict(np, key) THEN "pending"
    ELSE IF skip THEN "skip"
    ELSE "prompt"

\* lines 152-153 as they would be if they tested for "s" instead of "S"
SkipAllAfterLower(skip, value) == IF value = <<"s">> THEN TRUE ELSE skip

\* lines 152-153
SkipAllAfter(skip, value) == IF value = <<"S">> THEN TRUE ELSE skip

\* lines 154-163: the value returned after the line `value` was read
PromptRet(payee, value) ==
    IF value \in {<<"s">>, <<"S">>} THEN payee
    ELSE IF value = <<"q">> THEN Nul
    ELSE IF value = <<"=">> THEN payee
    ELSE value

\* lines 154-161 as they would be if "=" returned without registering
PromptPendingNoPreserve(np, key, payee, value) ==
    IF value \in {<<"s">>, <<"S">>, <<"q">>, <<"=">>} THEN np
    ELSE IF key # Empty THEN DictSet(np, key, PromptRet(payee, value))
    ELSE np

\* lines 154-161 as they would be without the test of line 160
PromptPendingAnyKey(np, key, payee, value) ==
    IF value \in {<<"s">>, <<"S">>, <<"q">>} THEN np
    ELSE DictSet(np, key, PromptRet(payee, value))

\* lines 154-161: new_payees after the line `value` was read
PromptPending(np, key, payee, value) ==
    IF value \in {<<"s">>, <<"S">>, <<"q">>} THEN np
    ELSE IF key # Empty THEN DictSet(np, key, PromptRet(payee, value))
    ELSE np

\* lines 121-163: map_payee, `value` being the line input() returns if it
\* is called
map_payee(df, np, skip, payee, r, value) ==
    LET key == MapPayeeKey(r, payee)
        via == Via(df, np, skip, key)
    IN  [ via |-> via,
          key |-> key,
          ret |-> CASE via = "cache" -> Matching(df, key)[1].BC
                    [] via = "pending" -> DictGet(np, key)
                    [] via = "skip" -> payee
                    [] OTHER -> PromptRet(payee, value),
          new_payees |-> IF via = "prompt"
                         THEN PromptPending(np, key, payee, value)
                         ELSE np,
          skip_all |-> IF via = "prompt" THEN SkipAllAfter(skip, value)
                       ELSE skip ]

\* Amount and Posting
Units(n, c) == [number |-> n, currency |-> c]
NoUnits == Units(0, "None")
Posting(account, units) == [account |-> account, units |-> units]

\* lines 177-180 as they would be if the last matching row were taken
add_post_last(df, payee, r) ==
    LET ret == Matching(df, AddPostKey(r, payee))
    IN  IF ret # << >> /\ ret[Len(ret)].POSTING # Empty
        THEN << Posting(ret[Len(ret)].POSTING, NoUnits) >>
        ELSE << >>

\* lines 166-180: the postings add_post appends to the transaction
add_post(df, payee, r) ==
    LET ret == Matching(df, AddPostKey(r, payee))
    IN  IF ret # << >> /\ ret[1].POSTING # Empty
        THEN << Posting(ret[1].POSTING, NoUnits) >>
        ELSE << >>

\* lines 83-100 as they would be if enumerate counted the rows from one
TransactionOneBased(idx, r, payee, payee_mpd, narrate, df) ==
    [ type |-> "Transaction",
      lineno |-> idx + 1,
      date |-> r.txn_date,
      payee |-> payee_mpd,
      narration |-> narrate,
      postings |-> << Posting(account_root, Units(r.amount, r.txn_comm)) >>
                   \o add_post(df, payee, r),
      account |-> "",
      amount |-> NoUnits ]

\* lines 83-100: the transaction of a row.  A payee of None is the empty
\* string here, for the code never gives a transaction the payee "".  The
\* fields account and amount are those of a Balance and are unset here.
Transaction(idx, r, payee, payee_mpd, narrate, df) ==
    [ type |-> "Transaction",
      lineno |-> idx,
      date |-> r.txn_date,
      payee |-> payee_mpd,
      narration |-> narrate,
      postings |-> << Posting(account_root, Units(r.amount, r.txn_comm)) >>
                   \o add_post(df, payee, r),
      account |-> "",
      amount |-> NoUnits ]

\* lines 103-111: the Balance directive; payee, narration and postings are
\* fields of a Transaction and are unset here
Balance(idx, date, units) ==
    [ type |-> "Balance",
      lineno |-> idx,
      date |-> date,
      payee |-> Empty,
      narration |-> Empty,
      postings |-> << >>,
      account |-> account_root,
      amount |-> units ]


(***************************************************************************)
(* extract.                                                                *)
(***************************************************************************)
Init ==
    /\ payee_map_file \in CacheFiles
    /\ old_file = Missing
    /\ skip_all = FALSE
    /\ file = << >>
    /\ eof = FALSE
    /\ calls = 0
    /\ pc = "idle"
    /\ payee_df = << >>
    /\ new_payees = << >>
    /\ entries = << >>
    /\ index = 0
    /\ row = NoRow
    /\ pos = 0
    /\ broke = FALSE
    /\ prompts = << >>
    /\ last = NoLast
    /\ io = << >>
    /\ result = NoResult

\* lines 53-66: extract is called, loads the cache and sets its locals
ExtractBegin ==
    /\ pc \in {"idle", "returned", "raised"}
    /\ calls < MaxCalls
    /\ calls' = calls + 1
    /\ payee_df' = ReadCsv(payee_map_file)
    /\ new_payees' = << >>
    /\ entries' = << >>
    /\ index' = 0
    /\ row' = NoRow
    /\ pos' = 0
    /\ broke' = FALSE
    /\ prompts' = << >>
    /\ last' = NoLast
    /\ io' = <<"read">>
    /\ result' = NoResult
    /\ pc' = "loop"
    /\ UNCHANGED <<payee_map_file, old_file, skip_all, file, eof>>

\* lines 67-69: the rows the csv.DictReader can yield next.  The file is
\* an input of at most MaxRows rows; a row is fixed when a reader first
\* yields it, and every call reads the same file
NextRows ==
    IF pos < Len(file) THEN { file[pos + 1] }
    ELSE IF ~eof /\ Len(file) < MaxRows THEN RowPool
    ELSE { }

\* line 79 as it would be if it compared with the operator's "q"
IsAbortLetter(payee_mpd) == payee_mpd = <<"q">>

\* line 79
IsAbort(payee_mpd) == payee_mpd = Nul

\* lines 85 and 106 as they would be if strptime accepted every string
DateOkLenient(date) == TRUE

\* lines 85 and 106: datetime.strptime(.., '%d-%m-%Y') accepts the string
DateOk(date) == date # BadDate

\* lines 68-100: one iteration of the row loop on the row r, `value` being
\* the line input() returns if map_payee prompts
LoopBody(r, value) ==
    LET payee == NormPayee(r)
        narrate == NormNarrate(r)
        m == map_payee(payee_df, new_payees, skip_all, payee, r, value)
    IN  /\ row' = r
        /\ file' = IF pos < Len(file) THEN file ELSE Append(file, r)
        /\ pos' = pos + 1
        /\ new_payees' = m.new_payees
        /\ skip_all' = m.skip_all
        /\ prompts' = IF m.via = "prompt"
                      THEN Append(prompts, [key |-> m.key, value |-> value,
                                            ret |-> m.ret])
                      ELSE prompts
        /\ last' = [via |-> m.via, key |-> m.key, payee |-> payee,
                    narrate |-> narrate, ret |-> m.ret,
                    built |-> ~IsAbort(m.ret) /\ DateOk(r.txn_date),
                    post_key |-> IF IsAbort(m.ret) \/ ~DateOk(r.txn_date)
                                 THEN Empty ELSE AddPostKey(r, payee)]
        /\ IF IsAbort(m.ret)
           THEN \* lines 79-81
                /\ index' = pos - 1
                /\ broke' = TRUE
                /\ pc' = "balance"
                /\ UNCHANGED <<entries, result>>
           ELSE IF ~DateOk(r.txn_date)
           THEN \* line 85: strptime raises ValueError
                /\ index' = pos
                /\ pc' = "raised"
                /\ result' = Raised("ValueError")
                /\ UNCHANGED <<entries, broke>>
           ELSE /\ index' = pos
                /\ entries' = Append(entries,
                      Transaction(pos, r, payee, m.ret, narrate, payee_df))
                /\ UNCHANGED <<pc, broke, result>>
        /\ UNCHANGED <<payee_map_file, old_file, eof, calls, payee_df, io>>

\* the next row resolves without a prompt (lines 133-140)
RowResolved ==
    /\ pc = "loop"
    /\ \E r \in NextRows :
          /\ Via(payee_df, new_payees, skip_all,
                 MapPayeeKey(r, NormPayee(r))) # "prompt"
          /\ LoopBody(r, Empty)

\* the next row prompts the operator, who types `value` (lines 142-163)
RowPrompted ==
    /\ pc = "loop"
    /\ \E r \in NextRows :
          /\ Via(payee_df, new_payees, skip_all,
                 MapPayeeKey(r, NormPayee(r))) = "prompt"
          /\ \E value \in Answers : LoopBody(r, value)

\* lines 68-69: the reader is exhausted and the loop ends
EndOfFile ==
    /\ pc = "loop"
    /\ pos = Len(file)
    /\ eof' = TRUE
    /\ pc' = "balance"
    /\ UNCHANGED <<payee_map_file, old_file, skip_all, file, calls, payee_df,
                   new_payees, entries, index, row, pos, broke, prompts, last,
                   io, result>>

\* entries[index] of a Python list: TRUE when the index is in range
InRange(es, i) == IF i >= 0 THEN i < Len(es) ELSE Len(es) + i >= 0
PyIndex(es, i) == IF i >= 0 THEN es[i + 1] ELSE es[Len(es) + i + 1]

\* lines 102-111: the Balance assertion.  The arguments are evaluated in
\* order: the date of row, then entries[index], then amount.add, which
\* raises ValueError when the two currencies differ
AppendBalance ==
    /\ pc = "balance"
    /\ IF index = 0
       THEN /\ pc' = "persist"
            /\ UNCHANGED <<entries, result>>
       ELSE IF ~DateOk(row.txn_date)
       THEN /\ pc' = "raised"
            /\ result' = Raised("ValueError")
            /\ UNCHANGED entries
       ELSE IF ~InRange(entries, index)
       THEN /\ pc' = "raised"
            /\ result' = Raised("IndexError")
            /\ UNCHANGED entries
       ELSE LET units == PyIndex(entries, index).postings[1].units
            IN  IF units.currency # row.account_comm
                THEN /\ pc' = "raised"
                     /\ result' = Raised("ValueError")
                     /\ UNCHANGED entries
                ELSE /\ entries' = Append(entries,
                           Balance(index, row.txn_date + 1,
                                   Units(units.number + row.balance_before,
                                         units.currency)))
                     /\ pc' = "persist"
                     /\ UNCHANGED result
    /\ UNCHANGED <<payee_map_file, old_file, skip_all, file, eof, calls,
                   payee_df, new_payees, index, row, pos, broke, prompts, last,
                   io>>

\* line 113 as it would be if the cache were written on every call
MustPersistAlways(np) == TRUE

\* line 113: `if new_payees:`
MustPersist(np) == np # << >>

\* lines 113-119: the cache is written when new_payees is not empty, and
\* extract returns entries
PersistAndReturn ==
    /\ pc = "persist"
    /\ IF MustPersist(new_payees)
       THEN /\ old_file' = ToCsv(payee_df)
            /\ payee_map_file' = ToCsv(payee_df \o NewPayeesDf(new_payees))
            /\ io' = io \o <<"backup", "write">>
       ELSE UNCHANGED <<payee_map_file, old_file, io>>
    /\ result' = Returned(entries)
    /\ pc' = "returned"
    /\ UNCHANGED <<skip_all, file, eof, calls, payee_df, new_payees, entries,
                   index, row, pos, broke, prompts, last>>

Next ==
    \/ ExtractBegin
    \/ RowResolved
    \/ RowPrompted
    \/ EndOfFile
    \/ AppendBalance
    \/ PersistAndReturn

Spec == Init /\ [][Next]_vars

(***************************************************************************)
(* The normalisation of lines 70-77 on its own: the payee and the          *)
(* narration of one row, for every payee and description up to MaxStr      *)
(* characters, the description also between apostrophes.                   *)
(***************************************************************************)
Alphabet == {"a", " ", ":", ">"}

Strings == UNION { [1..n -> Alphabet] : n \in 0..MaxStr }

Descriptions == Strings \cup { <<"'">> \o s \o <<"'">> : s \in Strings }

InitNorm ==
    /\ payee_map_file = Missing
    /\ old_file = Missing
    /\ skip_all = FALSE
    /\ file = << >>
    /\ eof = FALSE
    /\ calls = 0
    /\ pc = "idle"
    /\ payee_df = << >>
    /\ new_payees = << >>
    /\ entries = << >>
    /\ index = 0
    /\ row = NoRow
    /\ pos = 0
    /\ broke = FALSE
    /\ prompts = << >>
    /\ last = NoLast
    /\ io = << >>
    /\ result = NoResult

\* lines 70-77 on a row with the payee p and the description d
Normalize ==
    /\ row = NoRow
    /\ \E p \in Strings, d \in Descriptions :
          LET r == Row(1, Empty, p, d, 0, 0, "EUR", "EUR")
          IN  /\ row' = r
              /\ last' = [NoLast EXCEPT !.payee = NormPayee(r),
                                        !.narrate = NormNarrate(r)]
    /\ UNCHANGED <<payee_map_file, old_file, skip_all, file, eof, calls, pc,
                   payee_df, new_payees, entries, index, pos, broke, prompts,
                   io, result>>

NextNorm == Normalize

SpecNorm == InitNorm /\ [][NextNorm]_vars


(***************************************************************************)
(* Vocabulary of the properties.                                           *)
(***************************************************************************)
IsTxn(e) == e.type = "Transaction"
IsBalance(e) == e.type = "Balance"
Txns(es) == SelectSeq(es, IsTxn)
Balances(es) == SelectSeq(es, IsBalance)

\* the i-th transaction of es was built from the i-th row of the file
RowOrder(es) == \A i \in 1..Len(Txns(es)) : Txns(es)[i].lineno = i - 1

\* the call has ended, by a return or by an exception
Ended == pc \in {"returned", "raised"}

\* the operator answered "q" in this call; the aborted row is row number pos
Aborted == \E i \in 1..Len(prompts) : prompts[i].value = <<"q">>

(***************************************************************************)
(* C1: an abort on any row k, the first included, is never an error:       *)
(* extract returns normally and the result holds exactly the transactions  *)
(* built from the rows 1..k-1.                                             *)
(***************************************************************************)
C1_AbortReturnsPartial ==
    (Aborted /\ Ended) =>
        /\ result.kind = "returned"
        /\ Len(Txns(result.entries)) = pos - 1
        /\ RowOrder(result.entries)

(***************************************************************************)
(* C2: a run over n >= 1 rows without abort returns exactly n transactions *)
(* and exactly one Balance assertion, for n = 1 too; a file without rows   *)
(* gives no Balance assertion.                                             *)
(***************************************************************************)
C2_OneBalancePerFullRun ==
    (pc = "returned" /\ ~Aborted) =>
        /\ Len(Txns(result.entries)) = Len(file)
        /\ Len(Balances(result.entries)) = IF Len(file) >= 1 THEN 1 ELSE 0

(***************************************************************************)
(* C3: an abort on row k >= 2 returns exactly k-1 transactions followed by *)
(* exactly one Balance assertion.                                          *)
(***************************************************************************)
C3_AbortKeepsBalance ==
    (pc = "returned" /\ Aborted /\ pos >= 2) =>
        /\ Len(Txns(result.entries)) = pos - 1
        /\ Len(Balances(result.entries)) = 1
        /\ IsBalance(result.entries[Len(result.entries)])

(***************************************************************************)
(* C4: a Balance assertion extract returns is computed against the last    *)
(* transaction built: its date is that transaction's date plus one day,    *)
(* its account the primary account, its amount that transaction's primary  *)
(* posting amount plus the balance_before of the row it was built from.    *)
(***************************************************************************)
C4_BalanceAgainstLastBuilt ==
    (pc = "returned" /\ Balances(result.entries) # << >>) =>
        LET b == Balances(result.entries)[1]
            ts == Txns(result.entries)
            t == ts[Len(ts)]
        IN  /\ ts # << >>
            /\ b.date = t.date + 1
            /\ b.account = account_root
            /\ b.amount.number =
                  t.postings[1].units.number + file[t.lineno + 1].balance_before
            /\ b.amount.currency = t.postings[1].units.currency


\* the operator answered "S" in this call
SkipAllAsked == \E i \in 1..Len(prompts) : prompts[i].value = <<"S">>

\* the step is an iteration of the row loop of the running call
RowStep == pos' = pos + 1 /\ calls' = calls

\* the table df has a row whose RAW is key; the BC of the first such row
CacheHit(df, key) == \E i \in 1..Len(df) : df[i].RAW = key
FirstBC(df, key) ==
    LET i == CHOOSE j \in 1..Len(df) :
                 df[j].RAW = key /\ \A h \in 1..(j - 1) : df[h].RAW # key
    IN  df[i].BC

\* np holds key; the value it holds for key
PendingHit(np, key) == \E i \in 1..Len(np) : np[i].key = key
PendingValue(np, key) == np[CHOOSE i \in 1..Len(np) : np[i].key = key].value

(***************************************************************************)
(* C5: after the operator answers "q" on row k the row loop stops: no      *)
(* later row is read, no prompt is issued, no pending entry is added, the  *)
(* transactions built from the rows before k stay as they are, also in the *)
(* entries the call returns, and row k itself gives no transaction.        *)
(***************************************************************************)
C5_AbortStopsLoop ==
    [][ /\ (Aborted /\ calls' = calls) =>
              /\ pos' = pos
              /\ prompts' = prompts
              /\ new_payees' = new_payees
              /\ Txns(entries') = Txns(entries)
              /\ result'.kind = "returned" =>
                     Txns(result'.entries) = Txns(entries)
        /\ Aborted' =>
              /\ Len(Txns(entries')) = pos' - 1
              /\ RowOrder(entries')
              /\ prompts'[Len(prompts')].value = <<"q">> ]_vars

\* an abort on row 2 of a file of three rows returned the transaction of row 1
C5_Witness ==
    /\ Aborted
    /\ pc = "returned"
    /\ pos < Len(file)
    /\ Len(Txns(result.entries)) = pos - 1
    /\ pos >= 2

(***************************************************************************)
(* C6, as claimed: within one run no resolution key is prompted twice,     *)
(* whatever the operator answered at the first prompt.                     *)
(***************************************************************************)
C6_PromptOncePerKey ==
    \A i, j \in 1..Len(prompts) :
        i < j => prompts[i].key # prompts[j].key

(***************************************************************************)
(* C6, amended: a key is prompted again only if it is empty or its earlier *)
(* prompts were answered "s"; once a prompt for a non-empty key was        *)
(* answered with none of "s", "S", "q", every later resolution of that key *)
(* in the run issues no prompt and returns the value that answer resolved  *)
(* to.                                                                     *)
(***************************************************************************)
C6_PromptOnceWhenMemoized ==
    [][ /\ \A i, j \in 1..Len(prompts') :
              (i < j /\ prompts'[i].key = prompts'[j].key) =>
                  (prompts'[i].value = <<"s">> \/ prompts'[i].key = Empty)
        /\ RowStep =>
              \A i \in 1..Len(prompts) :
                  ( /\ prompts[i].key = last'.key
                    /\ prompts[i].key # Empty
                    /\ prompts[i].value \notin {<<"s">>, <<"S">>, <<"q">>} ) =>
                        /\ prompts' = prompts
                        /\ last'.via = "pending"
                        /\ last'.ret = prompts[i].ret ]_vars

\* a key the operator answered with "=" resolved a second time from pending
C6_Witness ==
    /\ last.via = "pending"
    /\ \E i \in 1..Len(prompts) :
          /\ prompts[i].key = last.key
          /\ prompts[i].value = <<"=">>
          /\ prompts[i].ret = last.ret

(***************************************************************************)
(* C7: once the operator answered "S", the rest of the run issues no       *)
(* prompt and adds no pending entry; a later row resolves to the BC of the *)
(* persisted cache or to the pending value when its key has one, and to    *)
(* its normalized payee otherwise.                                         *)
(***************************************************************************)
C7_SkipAllSticks ==
    [][ (SkipAllAsked /\ calls' = calls) =>
            /\ prompts' = prompts
            /\ new_payees' = new_payees
            /\ RowStep =>
                  /\ last'.payee = NormPayee(row')
                  /\ last'.ret =
                        IF CacheHit(payee_df, last'.key)
                        THEN FirstBC(payee_df, last'.key)
                        ELSE IF PendingHit(new_payees, last'.key)
                        THEN PendingValue(new_payees, last'.key)
                        ELSE last'.payee ]_vars

\* after "S" a row without cache or pending entry resolved to its payee
C7_Witness ==
    /\ SkipAllAsked
    /\ last.via = "skip"
    /\ last.ret = last.payee
    /\ Len(prompts) < pos - 1

(***************************************************************************)
(* C8: the resolution key of a row is contra_account if it is not empty,   *)
(* else the normalized payee if it is not empty, else the raw description, *)
(* and add_post looks the posting up under the key map_payee resolved.     *)
(***************************************************************************)
C8_KeyPolicy ==
    last.via # "none" =>
        /\ last.payee = NormPayee(row)
        /\ last.key = IF row.contra_account # Empty THEN row.contra_account
                      ELSE IF last.payee # Empty THEN last.payee
                      ELSE row.description
        /\ last.built => last.post_key = last.key

\* a transaction was built for a row with a contra_account and a payee
C8_Witness ==
    /\ last.built
    /\ row.contra_account # Empty
    /\ last.payee # Empty
    /\ last.payee # row.contra_account
    /\ last.post_key = row.contra_account

(***************************************************************************)
(* C9: a key with a RAW match in the loaded cache resolves to the BC of    *)
(* the first matching row, without prompt and without change of pending or *)
(* skip-all, whatever pending holds and whether skip-all is set; pending   *)
(* answers only without cache match, skip-all only without either.         *)
(***************************************************************************)
C9_CacheFirst ==
    [][ RowStep =>
          LET k == last'.key
              hit == CacheHit(payee_df, k)
              pend == PendingHit(new_payees, k)
          IN  /\ hit => /\ last'.via = "cache"
                        /\ last'.ret = FirstBC(payee_df, k)
                        /\ prompts' = prompts
                        /\ new_payees' = new_payees
                        /\ skip_all' = skip_all
              /\ (~hit /\ pend) => /\ last'.via = "pending"
                                   /\ last'.ret = PendingValue(new_payees, k)
                                   /\ prompts' = prompts
              /\ (~hit /\ ~pend /\ skip_all) => /\ last'.via = "skip"
                                                /\ prompts' = prompts
              /\ (~hit /\ ~pend /\ ~skip_all) => last'.via = "prompt" ]_vars

\* a cache hit while skip-all is set and pending is not empty
C9_Witness ==
    /\ last.via = "cache"
    /\ skip_all
    /\ new_payees # << >>
    /\ last.ret = payee_df[1].BC

(***************************************************************************)
(* C10: a resolution adds the pending entry key -> v exactly when the      *)
(* operator was prompted, answered none of "s", "S", "q", and the key is   *)
(* not empty; v is the normalized payee for "=" and the answer otherwise.  *)
(* "s" and "S" return the payee and leave pending as it is, and pending    *)
(* never holds the empty key.                                              *)
(***************************************************************************)
C10_PendingRule ==
    [][ calls' = calls =>
          LET prompted == Len(prompts') = Len(prompts) + 1
              p == prompts'[Len(prompts')]
              registers == /\ prompted
                           /\ p.value \notin {<<"s">>, <<"S">>, <<"q">>}
                           /\ p.key # Empty
          IN  /\ (new_payees' # new_payees) <=> registers
              /\ registers =>
                    new_payees' = Append(new_payees,
                        [key |-> p.key,
                         value |-> IF p.value = <<"=">> THEN last'.payee
                                   ELSE p.value])
              /\ (prompted /\ p.value \in {<<"s">>, <<"S">>}) =>
                    /\ last'.ret = last'.payee
                    /\ new_payees' = new_payees
              /\ \A i \in 1..Len(new_payees') : new_payees'[i].key # Empty ]_vars

\* the answer "=" registered the payee of the row under its key
C10_Witness ==
    /\ last.via = "prompt"
    /\ prompts[Len(prompts)].value = <<"=">>
    /\ new_payees # << >>
    /\ new_payees[Len(new_payees)] = [key |-> last.key, value |-> last.payee]
    /\ last.payee # Empty


\* the RAW values of a table are pairwise distinct
DistinctRaw(df) ==
    \A i, j \in 1..Len(df) : i < j => df[i].RAW # df[j].RAW

\* the text of a RAW cell of the cache file is key
InFile(f, key) == \E i \in 1..Len(f.rows) : f.rows[i].RAW = key

(***************************************************************************)
(* C11: RAW uniqueness is preserved.  A key is registered in pending only  *)
(* when the cache file of the run has no row with that RAW, and a run that *)
(* loaded pairwise distinct RAW values and wrote the cache leaves a cache  *)
(* whose RAW values, as the next load reads them, are pairwise distinct.   *)
(***************************************************************************)
C11_RawStaysUnique ==
    /\ pc \in {"loop", "balance", "persist"} =>
          \A i \in 1..Len(new_payees) :
              ~InFile(payee_map_file, new_payees[i].key)
    /\ (pc = "returned" /\ MustPersist(new_payees) /\ DistinctRaw(payee_df)) =>
          DistinctRaw(ReadCsv(payee_map_file))


\* the prompt registered a pending entry: a key that is not empty and an
\* answer other than "s", "S" and "q"
Registering(p) ==
    p.key # Empty /\ p.value \notin {<<"s">>, <<"S">>, <<"q">>}

\* the rows of the cache file that come from the registrations of the call,
\* in the order of the prompts
RegisteredRows ==
    LET ps == SelectSeq(prompts, Registering)
    IN  [i \in 1..Len(ps) |-> Entry(ps[i].key, ps[i].ret, Empty)]

\* the rows of the cache file that come from the table loaded at the start
LoadedRows ==
    [i \in 1..Len(payee_df) |->
        Entry(CellText(payee_df[i].RAW), CellText(payee_df[i].BC),
              CellText(payee_df[i].POSTING))]

(***************************************************************************)
(* C12: a run that ends with a pending addition leaves a cache file that   *)
(* holds the rows of the table loaded at the start, in their order, and    *)
(* then the pending rows in the order their keys were registered, each     *)
(* with its BC and an empty POSTING; the .old backup holds the table       *)
(* loaded at the start.                                                    *)
(***************************************************************************)
C12_CacheFileAfterRun ==
    (pc = "returned" /\ RegisteredRows # << >>) =>
        /\ payee_map_file = CsvFile(LoadedRows \o RegisteredRows)
        /\ old_file = CsvFile(LoadedRows)
        /\ io = <<"read", "backup", "write">>

\* a call that loaded a cache with rows returned after two registrations
C12_Witness ==
    /\ pc = "returned"
    /\ Len(RegisteredRows) = 2
    /\ payee_df # << >>
    /\ Len(payee_map_file.rows) = Len(payee_df) + 2
    /\ old_file.rows # << >>


(***************************************************************************)
(* C13 as stated: every extract call that returns has read the cache file  *)
(* once and has rewritten it once, calls without a pending addition and    *)
(* calls that began without a cache file included.                         *)
(***************************************************************************)
C13_RewritesEveryCall ==
    pc = "returned" => io = <<"read", "backup", "write">>

(***************************************************************************)
(* C13, amended: a call reads the cache file once, before the first row;   *)
(* the row loop and the Balance step touch neither file; the step that     *)
(* returns writes the backup and then the cache file, once, when the call  *)
(* registered a pending addition, and otherwise leaves both files as they  *)
(* are, a missing cache file included.                                     *)
(***************************************************************************)
C13_RewriteOnlyWithPending ==
    [][ /\ pc \in {"idle", "returned", "raised"} =>
              io' = <<"read">> /\ pos' = 0 /\ entries' = << >>
        /\ pc \in {"loop", "balance"} =>
              io' = io /\ UNCHANGED <<payee_map_file, old_file>>
        /\ pc = "persist" =>
              /\ pc' = "returned"
              /\ IF RegisteredRows # << >>
                 THEN io' = <<"read", "backup", "write">>
                 ELSE io' = <<"read">> /\
                      UNCHANGED <<payee_map_file, old_file>>
      ]_vars

\* a call that began without a cache file returned transactions, registered
\* nothing and left the cache file missing
C13_Witness ==
    /\ pc = "returned"
    /\ entries # << >>
    /\ prompts # << >>
    /\ RegisteredRows = << >>
    /\ io = <<"read">>
    /\ payee_map_file = Missing


\* the POSTING of the first row of df whose RAW equals key
FirstPosting(df, key) ==
    LET i == CHOOSE j \in 1..Len(df) :
                 df[j].RAW = key /\ \A h \in 1..(j - 1) : df[h].RAW # key
    IN  df[i].POSTING

\* the resolution keys of the rows of the input
RowKeys == { MapPayeeKey(r, NormPayee(r)) : r \in RowPool }

(***************************************************************************)
(* C14: round trip.  When a call has written the cache and a later call    *)
(* loads it, every key of a row that the earlier call resolved from the    *)
(* loaded table or from pending has a hit in the newly loaded table, with  *)
(* the BC the earlier call returned for it, and a key that had a POSTING   *)
(* has the same POSTING.                                                   *)
(***************************************************************************)
C14_RoundTrip ==
    [][ (pc = "returned" /\ io = <<"read", "backup", "write">> /\ pc' = "loop")
            => \A k \in RowKeys :
                  /\ CacheHit(payee_df, k) =>
                        /\ CacheHit(payee_df', k)
                        /\ FirstBC(payee_df', k) = FirstBC(payee_df, k)
                        /\ FirstPosting(payee_df', k) = FirstPosting(payee_df, k)
                  /\ (~CacheHit(payee_df, k) /\ PendingHit(new_payees, k)) =>
                        /\ CacheHit(payee_df', k)
                        /\ FirstBC(payee_df', k) = PendingValue(new_payees, k)
      ]_vars


(***************************************************************************)
(* C15: every built transaction has as its first posting the primary       *)
(* account with the amount and currency of its row; it has a second        *)
(* posting exactly when the first row of the loaded cache whose RAW equals *)
(* the key of the row has a POSTING that is not empty, and that posting    *)
(* has this account and no amount; it never has a third posting.  A key    *)
(* that only pending resolves gives no second posting.                     *)
(***************************************************************************)
C15_Postings ==
    \A i \in 1..Len(entries) :
        IsTxn(entries[i]) =>
            LET e == entries[i]
                r == file[e.lineno + 1]
                k == AddPostKey(r, NormPayee(r))
                second == /\ CacheHit(payee_df, k)
                          /\ FirstPosting(payee_df, k) # Empty
            IN  /\ e.postings[1] =
                      Posting(account_root, Units(r.amount, r.txn_comm))
                /\ Len(e.postings) = IF second THEN 2 ELSE 1
                /\ second =>
                      e.postings[2] = Posting(FirstPosting(payee_df, k), NoUnits)
                /\ (~CacheHit(payee_df, k) /\ PendingHit(new_payees, k)) =>
                      Len(e.postings) = 1

\* a call returned a transaction with two postings and one whose key only
\* pending resolves
C15_Witness ==
    /\ pc = "returned"
    /\ \E i, h \in 1..Len(entries) :
          /\ IsTxn(entries[i]) /\ Len(entries[i].postings) = 2
          /\ IsTxn(entries[h]) /\ Len(entries[h].postings) = 1
          /\ PendingHit(new_payees, AddPostKey(file[entries[h].lineno + 1],
                    NormPayee(file[entries[h].lineno + 1])))


(***************************************************************************)
(* C16: a malformed txn_date is fatal for the call.  Once the loop has     *)
(* taken a row whose txn_date does not parse, and the operator did not     *)
(* abort on it, extract has raised the parse error: it returns no entries  *)
(* and has written neither the cache file nor the backup, whatever pending *)
(* holds.                                                                  *)
(***************************************************************************)
C16_BadDateIsFatal ==
    [][ (pc' # "idle" /\ pos' >= 1 /\ file'[pos'].txn_date = BadDate
           /\ ~Aborted') =>
            /\ pc' = "raised"
            /\ result' = Raised("ValueError")
            /\ io' = <<"read">>
            /\ UNCHANGED <<payee_map_file, old_file>>
      ]_vars

\* the third row has a malformed date: the call raised after it built two
\* transactions and registered pending entries, and there is still no cache
\* file
C16_Witness ==
    /\ pc = "raised"
    /\ result = Raised("ValueError")
    /\ pos = 3
    /\ row.txn_date = BadDate
    /\ Len(entries) = 2
    /\ Len(new_payees) >= 2
    /\ payee_map_file = Missing
    /\ old_file = Missing


(***************************************************************************)
(* C17: a call depends on nothing an earlier call left behind but the      *)
(* cache file.  In particular a skip-all set by "S" lasts only to the end  *)
(* of the call in which it was typed: a row is resolved by skip-all only   *)
(* after an "S" in the same call.                                          *)
(***************************************************************************)
C17_SkipAllEndsWithCall ==
    /\ pc = "loop" /\ pos = 0 => ~skip_all
    /\ last.via = "skip" => SkipAllAsked


\* s holds a non-whitespace character
HasNonSpace(s) == \E i \in 1..Len(s) : ~IsSpace(s[i])

(***************************************************************************)
(* C18: the normalised payee comes from the narration only when the raw    *)
(* payee is empty or whitespace and the narration holds ">".  The payee    *)
(* of a row whose raw payee holds a non-whitespace character is the        *)
(* capitalised raw payee, whatever the narration holds.                    *)
(***************************************************************************)
C18_PayeeFromNarrationOnlyIfBlank ==
    (row # NoRow /\ HasNonSpace(row.payee)) =>
        last.payee = Strip(SubWsColon(capwords(row.payee)))

\* s has no colon, no two whitespace characters in a row and no whitespace
\* at either end
Clean(s) ==
    /\ \A i \in 1..Len(s) : s[i] # ":"
    /\ \A i \in 1..(Len(s) - 1) : ~(IsSpace(s[i]) /\ IsSpace(s[i + 1]))
    /\ s # Empty => ~IsSpace(s[1]) /\ ~IsSpace(s[Len(s)])

(***************************************************************************)
(* C20: the normalised payee and the normalised narration of every row     *)
(* hold no colon, no run of two or more whitespace characters and no       *)
(* whitespace at either end, also when a colon stands next to whitespace   *)
(* or to another colon in the input.                                       *)
(***************************************************************************)
C20_NormalizedIsClean ==
    row # NoRow => Clean(last.payee) /\ Clean(last.narrate)


(***************************************************************************)
(* C19: the entries extract returns are ordered.  The i-th transaction,    *)
(* counted from zero, is built from the i-th row of the file and carries   *)
(* the index i; every row before the stopping point has its transaction;   *)
(* there is at most one Balance, and it is the last entry.                 *)
(***************************************************************************)
C19_EntriesOrdered ==
    pc = "returned" =>
        LET es == result.entries
            n == Len(Txns(es))
        IN  /\ n = IF Aborted THEN pos - 1 ELSE pos
            /\ \A i \in 1..n :
                  /\ IsTxn(es[i])
                  /\ es[i].lineno = i - 1
                  /\ es[i].date = file[i].txn_date
                  /\ es[i].narration = NormNarrate(file[i])
                  /\ es[i].postings[1].units =
                        Units(file[i].amount, file[i].txn_comm)
            /\ Len(es) \in {n, n + 1}
            /\ Len(es) = n + 1 => IsBalance(es[n + 1])

\* a call returned the transactions of three rows and then the Balance
C19_Witness ==
    /\ pc = "returned"
    /\ Len(Txns(result.entries)) = 3
    /\ Len(result.entries) = 4
    /\ IsBalance(result.entries[4])

====
